---- MODULE Spec2Model ----
(***************************************************************************)
(* Evidence highlighting of the document question-answering app            *)
(* (intelligent-mutual-fund-prospectus-document-processing/app.py):        *)
(* markdown_escape, markdown2 (tier selection and the rendering loop),     *)
(* markdown_bgcolor / markdown_fgcolor, and the part of main that          *)
(* tokenizes the ground truth and runs the two highlighting passes.        *)
(*                                                                         *)
(* A text is a sequence of one-character strings.  Offsets are Python's:   *)
(* 0-based, half-open.  utils.utils_text (text_tokenizer and the three     *)
(* spans_of_tokens_* locators) is imported by app.py but is not among the  *)
(* sources; those four operators follow the written specification.         *)
(***************************************************************************)
EXTENDS Integers, Sequences, FiniteSets, TLC

VARIABLES pc, all_text, ground_truth, response, tokens_answer, tokens_labels,
          tokens_miss, markd, hist

vars == <<pc, all_text, ground_truth, response, tokens_answer, tokens_labels,
          tokens_miss, markd, hist>>

\* ------------------------------------------------------------------ bounds
MaxTextLen == 3
MaxTruthLen == 2
MaxTokens == 2
MaxSpans == 2
MaxEscLen == 2

\* if len(tokens) < 20:  # OOM
OrderedTokenLimit == 20

\* ------------------------------------------------------------- characters
Alphabet == {"a", "B", " ", "$"}
TruthAlphabet == {"a", "B", " "}
\* the character class of markdown_escape; BACKTICK is the grave accent
BACKTICK == "<U+0060>"
MarkupChars == {"$", "+", "#", BACKTICK, "{", "}"}
EscAlphabet == MarkupChars \cup {"a", "\\"}
\* chr(1), the character the Python literal "\1" denotes
SOH == "<U+0001>"

LowerLetters == {"a","b","c","d","e","f","g","h","i","j","k","l","m","n","o",
                 "p","q","r","s","t","u","v","w","x","y","z"}
UpperLetters == {"B", "E", "N"}
Digits == {"0","1","2","3","4","5","6","7","8","9"}
IsAlnum(c) == c \in LowerLetters \cup UpperLetters \cup Digits
LowerChar(c) == CASE c = "B" -> "b" [] c = "E" -> "e" [] c = "N" -> "n" [] OTHER -> c
Lower(s) == [n \in 1..Len(s) |-> LowerChar(s[n])]

StringsOver(A, n) == UNION {[1..k -> A] : k \in 0..n}
Texts == StringsOver(Alphabet, MaxTextLen)
GroundTruths == StringsOver(TruthAlphabet, MaxTruthLen)
Responses == {<<>>, <<"B">>}
EscTexts == StringsOver(EscAlphabet, MaxEscLen)
\* the text the rendering loop is exercised on: a prefix of a fixed string
RenderBase == <<"a", "$", " ", "B", "a", "$", " ", "B">>
RenderTexts == {SubSeq(RenderBase, 1, n) : n \in 0..MaxTextLen}

\* colours; None is the None object
None == <<"None">>
Red == <<"r","e","d">>
LightGreen == <<"#","9","0","E","E","9","0">>
Blue == <<"b","l","u","e">>
Styles == {[fg |-> None, bg |-> Red], [fg |-> Blue, bg |-> None],
           [fg |-> None, bg |-> None]}
Truthy(c) == c # None /\ c # <<>>
Fmt(c) == IF c = None THEN <<"N","o","n","e">> ELSE c

\* ------------------------------------------------------------ Python slices
Min(a, b) == IF a < b THEN a ELSE b

\* text[a:b] for 0 <= a, 0 <= b, each character with its 1-based origin in text
SliceT(text, a, b) ==
    LET lo == Min(a, Len(text))
        hi == Min(b, Len(text))
    IN IF lo >= hi THEN <<>>
       ELSE [n \in 1..(hi - lo) |-> [c |-> text[lo + n], o |-> lo + n]]

\* characters the code itself writes (origin 0)
Lit(s) == [n \in 1..Len(s) |-> [c |-> s[n], o |-> 0]]
Chars(t) == [n \in 1..Len(t) |-> t[n].c]

\* ---------------------------------------------------------------- markers
BgOpenPrefix == <<"<","s","p","a","n"," ","s","t","y","l","e","=","\"","b","a","c",
                  "k","g","r","o","u","n","d","-","c","o","l","o","r",":">>
BgOpenSuffix == <<";","\"",">">>
BgClose == <<"<","/","s","p","a","n",">">>

\* f'<span style="background-color:{bg_color};">{text}</span>'
markdown_bgcolor(text, bg_color) ==
    Lit(BgOpenPrefix \o Fmt(bg_color) \o BgOpenSuffix) \o text \o Lit(BgClose)

\* f":{fg_color}[{text}]"
markdown_fgcolor(text, fg_color) ==
    Lit(<<":">> \o Fmt(fg_color) \o <<"[">>) \o text \o Lit(<<"]">>)

OpenMarker(fg_color, bg_color) ==
    IF Truthy(bg_color) THEN BgOpenPrefix \o Fmt(bg_color) \o BgOpenSuffix
    ELSE <<":">> \o Fmt(fg_color) \o <<"[">>
CloseMarker(fg_color, bg_color) == IF Truthy(bg_color) THEN BgClose ELSE <<"]">>

\* --------------------------------------------------------- markdown_escape
\* re.sub(r"([\$\+\#\`\{\}])", "\\\1", text): the replacement is the non-raw
\* literal "\\\1", i.e. a backslash followed by chr(1); re leaves a backslash
\* before a character that is neither a digit nor a letter as it is, so every
\* match is replaced by those two characters.
EscapeReplacement == <<"\\", SOH>>

RECURSIVE EscapeFrom(_, _)
EscapeFrom(text, n) ==
    IF n > Len(text) THEN <<>>
    ELSE (IF text[n] \in MarkupChars THEN EscapeReplacement ELSE <<text[n]>>)
         \o EscapeFrom(text, n + 1)

markdown_escape(text) == EscapeFrom(text, 1)

\* ------------------------------------------------- utils.utils_text (spec)
RECURSIVE SortedSeq(_)
SortedSeq(S) ==
    IF S = {} THEN <<>>
    ELSE LET m == CHOOSE x \in S : \A y \in S : x <= y
         IN <<m>> \o SortedSeq(S \ {m})

WordStarts(text) ==
    {n \in 1..Len(text) : IsAlnum(text[n]) /\ (n = 1 \/ ~IsAlnum(text[n - 1]))}
WordEnd(text, n) ==
    CHOOSE m \in n..Len(text) :
        /\ \A k \in n..m : IsAlnum(text[k])
        /\ (m = Len(text) \/ ~IsAlnum(text[m + 1]))

\* the document's tokens, each with the raw-text offsets it was cut from
DocTokens(text) ==
    LET st == SortedSeq(WordStarts(text))
    IN [n \in 1..Len(st) |->
          [tok |-> Lower(SubSeq(text, st[n], WordEnd(text, st[n]))),
           s |-> st[n] - 1, e |-> WordEnd(text, st[n])]]

\* split on whitespace and punctuation, lower-case, drop empty units
text_tokenizer(text) ==
    LET d == DocTokens(text) IN [n \in 1..Len(d) |-> d[n].tok]

\* t occurs in d[a..b] as a subsequence: each target consumes one position
RECURSIVE InOrder(_, _, _, _, _)
InOrder(t, n, d, a, b) ==
    IF n > Len(t) THEN TRUE
    ELSE IF a > b THEN FALSE
    ELSE IF d[a].tok = t[n] THEN InOrder(t, n + 1, d, a + 1, b)
    ELSE InOrder(t, n, d, a + 1, b)

\* the shortest window of W, the leftmost among equals, as a one-span list
BestWindow(d, W) ==
    IF W = {} THEN <<>>
    ELSE LET w == CHOOSE x \in W : \A y \in W :
                     \/ x[2] - x[1] < y[2] - y[1]
                     \/ (x[2] - x[1] = y[2] - y[1] /\ x[1] <= y[1])
         IN << <<d[w[1]].s, d[w[2]].e>> >>

Windows(d) == {w \in (1..Len(d)) \X (1..Len(d)) : w[1] <= w[2]}

\* tier 1: shortest window holding the targets in their order
spans_of_tokens_ordered(text, tokens) ==
    LET d == DocTokens(text)
    IN IF Len(tokens) = 0 THEN <<>>
       ELSE BestWindow(d, {w \in Windows(d) : InOrder(tokens, 1, d, w[1], w[2])})

\* tier 2: shortest window holding every target, in any order
spans_of_tokens_compact(text, tokens) ==
    LET d == DocTokens(text)
        T == {tokens[n] : n \in 1..Len(tokens)}
    IN IF Len(tokens) = 0 THEN <<>>
       ELSE BestWindow(d, {w \in Windows(d) :
                             T \subseteq {d[k].tok : k \in w[1]..w[2]}})

\* tier 3 with the occurrences listed target by target, never sorted
spans_of_tokens_all_by_target(text, tokens) ==
    LET d == DocTokens(text)
        Occ(t) == SelectSeq(d, LAMBDA x : x.tok = t)
        F[n \in 0..Len(tokens)] ==
            IF n = 0 THEN <<>>
            ELSE F[n - 1] \o [k \in 1..Len(Occ(tokens[n])) |->
                                <<Occ(tokens[n])[k].s, Occ(tokens[n])[k].e>>]
    IN F[Len(tokens)]

\* tier 3: one span per occurrence of each target, duplicates removed
spans_of_tokens_all(text, tokens) ==
    LET d == DocTokens(text)
        T == {tokens[n] : n \in 1..Len(tokens)}
        hit == SelectSeq(d, LAMBDA x : x.tok \in T)
    IN [n \in 1..Len(hit) |-> <<hit[n].s, hit[n].e>>]

\* ---------------------------------------------------------------- markdown2
Tier(fn, text, tokens) ==
    CASE fn = "spans_of_tokens_ordered" -> spans_of_tokens_ordered(text, tokens)
      [] fn = "spans_of_tokens_compact" -> spans_of_tokens_compact(text, tokens)
      [] fn = "spans_of_tokens_all" -> spans_of_tokens_all(text, tokens)

\* spans = fn(text, tokens), with the call logged
Invoke(st, fn, text, tokens) ==
    LET r == Tier(fn, text, tokens)
    IN [spans |-> r,
        calls |-> Append(st.calls, [fn |-> fn, text |-> text,
                                    tokens |-> tokens, result |-> r])]

NoSpans == [spans |-> <<>>, calls |-> <<>>]

\* variant: the last tier is run whatever the earlier tiers returned
TierSearch_AlwaysAll(text, tokens) ==
    LET st1 == IF Len(tokens) < OrderedTokenLimit
               THEN LET a == Invoke(NoSpans, "spans_of_tokens_ordered", text, tokens)
                    IN IF a.spans = <<>>
                       THEN Invoke(a, "spans_of_tokens_compact", text, tokens)
                       ELSE a
               ELSE NoSpans
    IN Invoke(st1, "spans_of_tokens_all", text, tokens)

\* variant: only the ordered tier is under the token-count test
TierSearch_CompactUnnested(text, tokens) ==
    LET st1 == IF Len(tokens) < OrderedTokenLimit
               THEN Invoke(NoSpans, "spans_of_tokens_ordered", text, tokens)
               ELSE NoSpans
        st2 == IF st1.spans = <<>>
               THEN Invoke(st1, "spans_of_tokens_compact", text, tokens)
               ELSE st1
    IN IF st2.spans = <<>>
       THEN Invoke(st2, "spans_of_tokens_all", text, tokens)
       ELSE st2

\* variant: an empty token collection returns before any tier
TierSearch_EmptyGuard(text, tokens) ==
    IF Len(tokens) = 0 THEN NoSpans
    ELSE LET st1 == IF Len(tokens) < OrderedTokenLimit
                    THEN LET a == Invoke(NoSpans, "spans_of_tokens_ordered", text, tokens)
                         IN IF a.spans = <<>>
                            THEN Invoke(a, "spans_of_tokens_compact", text, tokens)
                            ELSE a
                    ELSE NoSpans
         IN IF st1.spans = <<>>
            THEN Invoke(st1, "spans_of_tokens_all", text, tokens)
            ELSE st1

\* spans = []
\* if len(tokens) < 20:
\*     spans = spans_of_tokens_ordered(text, tokens)
\*     if not spans: spans = spans_of_tokens_compact(text, tokens)
\* if not spans: spans = spans_of_tokens_all(text, tokens)
TierSearch(text, tokens) ==
    LET st1 == IF Len(tokens) < OrderedTokenLimit
               THEN LET a == Invoke(NoSpans, "spans_of_tokens_ordered", text, tokens)
                    IN IF a.spans = <<>>
                       THEN Invoke(a, "spans_of_tokens_compact", text, tokens)
                       ELSE a
               ELSE NoSpans
    IN IF st1.spans = <<>>
       THEN Invoke(st1, "spans_of_tokens_all", text, tokens)
       ELSE st1

Wrap(piece, fg_color, bg_color) ==
    IF Truthy(bg_color) THEN markdown_bgcolor(piece, bg_color)
    ELSE markdown_fgcolor(piece, fg_color)

\* variant: k is left at the span's start (k = i)
RECURSIVE RenderLoop_KeepK(_, _, _, _, _)
RenderLoop_KeepK(text, spans, n, fg_color, bg_color) ==
    IF n = 0 THEN [out |-> <<>>, k |-> 0]
    ELSE LET p == RenderLoop_KeepK(text, spans, n - 1, fg_color, bg_color)
             i == spans[n][1]
             j == spans[n][2]
         IN [out |-> p.out \o SliceT(text, p.k, i)
                          \o Wrap(SliceT(text, i, j), fg_color, bg_color),
             k |-> i]

\* output, k after the first n rounds of `for i, j in spans`
RECURSIVE RenderLoop(_, _, _, _, _)
RenderLoop(text, spans, n, fg_color, bg_color) ==
    IF n = 0 THEN [out |-> <<>>, k |-> 0]
    ELSE LET p == RenderLoop(text, spans, n - 1, fg_color, bg_color)
             i == spans[n][1]
             j == spans[n][2]
         IN [out |-> p.out \o SliceT(text, p.k, i)
                          \o Wrap(SliceT(text, i, j), fg_color, bg_color),
             k |-> j]

\* variant: the text after the last span is not appended
Render_NoTail(text, spans, fg_color, bg_color) ==
    RenderLoop(text, spans, Len(spans), fg_color, bg_color).out

\* the loop, then output += text[k:]
Render(text, spans, fg_color, bg_color) ==
    LET r == RenderLoop(text, spans, Len(spans), fg_color, bg_color)
    IN r.out \o SliceT(text, r.k, Len(text))

Result(text, tokens, fg_color, bg_color, st) ==
    LET t == Render(text, st.spans, fg_color, bg_color)
    IN [text |-> text, tokens |-> tokens, fg |-> fg_color, bg |-> bg_color,
        calls |-> st.calls, spans |-> st.spans, tagged |-> t, output |-> Chars(t)]

\* variant: a background style goes straight to the all-occurrences tier
markdown2_StyleGate(text, tokens, fg_color, bg_color) ==
    Result(text, tokens, fg_color, bg_color,
           IF Truthy(bg_color)
           THEN Invoke(NoSpans, "spans_of_tokens_all", text, tokens)
           ELSE TierSearch(text, tokens))

markdown2(text, tokens, fg_color, bg_color) ==
    Result(text, tokens, fg_color, bg_color, TierSearch(text, tokens))

\* ------------------------------------------------------------------ inputs
Vocabulary == {<<"a">>, <<"b">>, <<"a", "b">>}
LongTokens(k) == [n \in 1..k |-> <<"a">>]
TokenLists ==
    StringsOver(Vocabulary, MaxTokens)
    \cup {LongTokens(k) : k \in (OrderedTokenLimit - 1)..(OrderedTokenLimit + 1)}

\* any list of offset pairs, well-formed or not
SpanLists(text) ==
    StringsOver((0..(Len(text) + 1)) \X (0..(Len(text) + 1)), MaxSpans)

\* the orders in which a Python set may be iterated
Orders(S) ==
    {q \in [1..Cardinality(S) -> S] : \A m, n \in 1..Cardinality(S) : q[m] = q[n] => m = n}

\* f"{ground_truth}" of a str
Format(x) == [n \in 1..Len(x) |-> x[n]]
SetOf(q) == {q[n] : n \in 1..Len(q)}

\* ------------------------------------------------------------------- state
Init ==
    /\ pc = "start"
    /\ all_text = <<>>
    /\ ground_truth = <<>>
    /\ response = <<>>
    /\ tokens_answer = <<>>
    /\ tokens_labels = <<>>
    /\ tokens_miss = {}
    /\ markd = <<>>
    /\ hist = <<>>

\* main: response, ground_truth, all_text = search_and_answer_*(...)
MainAnswer ==
    /\ pc = "start"
    /\ \E d \in Texts, g \in GroundTruths, r \in Responses :
          /\ all_text' = d
          /\ ground_truth' = g
          /\ response' = r
    /\ pc' = "answered"
    /\ UNCHANGED <<tokens_answer, tokens_labels, tokens_miss, markd, hist>>

\* variant: the answer tokens come from the model's response
MainTokenize_FromResponse ==
    /\ pc = "answered"
    /\ tokens_answer' = text_tokenizer(response)
    /\ tokens_labels' = IF ground_truth # <<>>
                        THEN text_tokenizer(Format(ground_truth)) ELSE <<>>
    /\ tokens_miss' = SetOf(tokens_labels') \ SetOf(tokens_answer')
    /\ pc' = "tokenized"
    /\ UNCHANGED <<all_text, ground_truth, response, markd, hist>>

\* main: tokens_answer, tokens_labels, tokens_miss
MainTokenize ==
    /\ pc = "answered"
    /\ tokens_answer' = text_tokenizer(ground_truth)
    /\ tokens_labels' = IF ground_truth # <<>>
                        THEN text_tokenizer(Format(ground_truth)) ELSE <<>>
    /\ tokens_miss' = SetOf(tokens_labels') \ SetOf(tokens_answer')
    /\ pc' = "tokenized"
    /\ UNCHANGED <<all_text, ground_truth, response, markd, hist>>

\* main: markd = markdown_escape(all_text)
MainEscape ==
    /\ pc = "tokenized"
    /\ markd' = markdown_escape(all_text)
    /\ pc' = "escaped"
    /\ UNCHANGED <<all_text, ground_truth, response, tokens_answer,
                   tokens_labels, tokens_miss, hist>>

\* main: markd = markdown2(text=markd, tokens=tokens_answer, bg_color="#90EE90")
MainPass1 ==
    /\ pc = "escaped"
    /\ LET r == markdown2(markd, tokens_answer, None, LightGreen)
       IN /\ hist' = Append(hist, r)
          /\ markd' = r.output
    /\ pc' = "pass1"
    /\ UNCHANGED <<all_text, ground_truth, response, tokens_answer,
                   tokens_labels, tokens_miss>>

\* main: markd = markdown2(text=markd, tokens=tokens_miss, bg_color="red")
MainPass2 ==
    /\ pc = "pass1"
    /\ \E q \in Orders(tokens_miss) :
          LET r == markdown2(markd, q, None, Red)
          IN /\ hist' = Append(hist, r)
             /\ markd' = r.output
    /\ pc' = "done"
    /\ UNCHANGED <<all_text, ground_truth, response, tokens_answer,
                   tokens_labels, tokens_miss>>

\* one highlight request: markdown2 on any text, tokens and style
Highlight ==
    /\ pc = "start"
    /\ \E text \in Texts, tokens \in TokenLists, st \in Styles :
          hist' = <<markdown2(text, tokens, st.fg, st.bg)>>
    /\ pc' = "highlighted"
    /\ UNCHANGED <<all_text, ground_truth, response, tokens_answer,
                   tokens_labels, tokens_miss, markd>>

\* the same request once more, in another style
Restyle ==
    /\ pc = "highlighted"
    /\ \E st \in Styles :
          /\ <<st.fg, st.bg>> # <<hist[1].fg, hist[1].bg>>
          /\ hist' = Append(hist, markdown2(hist[1].text, hist[1].tokens, st.fg, st.bg))
    /\ pc' = "restyled"
    /\ UNCHANGED <<all_text, ground_truth, response, tokens_answer,
                   tokens_labels, tokens_miss, markd>>

\* markdown2's rendering loop on a given span list
RenderSpans ==
    /\ pc = "start"
    /\ \E text \in RenderTexts, st \in Styles :
          \E spans \in SpanLists(text) :
             hist' = <<Result(text, <<>>, st.fg, st.bg,
                              [spans |-> spans, calls |-> <<>>])>>
    /\ pc' = "rendered"
    /\ UNCHANGED <<all_text, ground_truth, response, tokens_answer,
                   tokens_labels, tokens_miss, markd>>

\* markdown_escape on any text
Escape ==
    /\ pc = "start"
    /\ \E text \in EscTexts :
          /\ all_text' = text
          /\ markd' = markdown_escape(text)
    /\ pc' = "escape_done"
    /\ UNCHANGED <<ground_truth, response, tokens_answer, tokens_labels,
                   tokens_miss, hist>>

Next ==
    \/ MainAnswer
    \/ MainTokenize
    \/ MainEscape
    \/ MainPass1
    \/ MainPass2
    \/ Highlight
    \/ Restyle
    \/ RenderSpans
    \/ Escape

Spec == Init /\ [][Next]_vars

\* ------------------------------------------------------------- properties
\* the markdown2 calls made so far (RenderSpans runs the loop only)
Requests == IF pc = "rendered" THEN {} ELSE {hist[h] : h \in 1..Len(hist)}
Rendered == {hist[h] : h \in 1..Len(hist)}

TierRank(fn) ==
    CASE fn = "spans_of_tokens_ordered" -> 1
      [] fn = "spans_of_tokens_compact" -> 2
      [] fn = "spans_of_tokens_all" -> 3

Names(calls) == [n \in 1..Len(calls) |-> calls[n].fn]

\* within the text, start < end, ascending by start, pairwise disjoint
ValidSpans(text, spans) ==
    /\ \A n \in 1..Len(spans) :
          0 <= spans[n][1] /\ spans[n][1] < spans[n][2] /\ spans[n][2] <= Len(text)
    /\ \A m, n \in 1..Len(spans) : m < n => spans[m][1] <= spans[n][1]
    /\ \A m, n \in 1..Len(spans) :
          m # n => (spans[m][2] <= spans[n][1] \/ spans[n][2] <= spans[m][1])

TextOnly(t) == SelectSeq(t, LAMBDA x : x.o # 0)
MarkersOnly(t) == SelectSeq(t, LAMBDA x : x.o = 0)
\* where the text's character number o sits in the output
PosOf(t, o) == CHOOSE n \in 1..Len(t) : t[n].o = o

\* C1: the tiers run in the order ordered, compact, all; a tier runs only
\* if every tier run before it returned no span; the rendered spans are
\* those of the last tier run, the first one that returned any.
C1_FirstNonEmptyTierWins ==
    \A r \in Requests :
        /\ Len(r.calls) > 0
        /\ \A m, n \in 1..Len(r.calls) :
              m < n => TierRank(r.calls[m].fn) < TierRank(r.calls[n].fn)
        /\ \A n \in 1..Len(r.calls) :
              /\ r.calls[n].text = r.text
              /\ r.calls[n].tokens = r.tokens
              /\ (n < Len(r.calls) => r.calls[n].result = <<>>)
        /\ r.spans = r.calls[Len(r.calls)].result

C1_Witness ==
    /\ pc = "highlighted"
    /\ Names(hist[1].calls) = <<"spans_of_tokens_ordered", "spans_of_tokens_compact">>
    /\ hist[1].calls[1].result = <<>>
    /\ hist[1].spans # <<>>

\* C2 as claimed: with 20 tokens or more the ordered tier alone is skipped
\* and the any-order-compact tier is the first one invoked.
C2_CompactRunsAtLimit ==
    \A r \in Requests :
        Len(r.tokens) >= OrderedTokenLimit =>
            /\ Len(r.calls) > 0
            /\ r.calls[1].fn = "spans_of_tokens_compact"

\* C2 amended: with 20 tokens or more both compact tiers are skipped; the
\* only tier invoked is spans_of_tokens_all, and its result is rendered.
C2_OnlyAllAtLimit ==
    \A r \in Requests :
        Len(r.tokens) >= OrderedTokenLimit =>
            /\ Names(r.calls) = <<"spans_of_tokens_all">>
            /\ r.spans = r.calls[1].result

C2_Witness ==
    /\ pc = "highlighted"
    /\ Len(hist[1].tokens) = OrderedTokenLimit
    /\ hist[1].spans # <<>>

C4_LaterPassOnOriginalText ==
    pc = "done" =>
        \A n \in 1..Len(hist[2].calls) : hist[2].calls[n].text = hist[1].text

C6_StyleDoesNotAffectSpans ==
    pc = "restyled" =>
        /\ hist[1].calls = hist[2].calls
        /\ hist[1].spans = hist[2].spans
        /\ TextOnly(hist[1].tagged) = TextOnly(hist[2].tagged)
        /\ Len(MarkersOnly(hist[1].tagged)) = 0 <=> Len(MarkersOnly(hist[2].tagged)) = 0

C6_Witness ==
    /\ pc = "restyled"
    /\ hist[1].spans # <<>>
    /\ Truthy(hist[1].bg) /\ ~Truthy(hist[2].bg)
    /\ hist[1].output # hist[2].output

\* C7: when every tier that ran returned no span, markdown2 returns the
\* text as it was given, with no marker in it.
C7_NoEvidenceReturnsText ==
    \A r \in Requests :
        (\A n \in 1..Len(r.calls) : r.calls[n].result = <<>>) =>
            /\ r.output = r.text
            /\ MarkersOnly(r.tagged) = <<>>

C7_Witness ==
    /\ pc = "highlighted"
    /\ hist[1].tokens # <<>>
    /\ hist[1].text # <<>>
    /\ Len(hist[1].calls) = 3
    /\ hist[1].spans = <<>>

\* C8: for a sorted, disjoint, in-bounds span list the output holds every
\* character of the text once and in order, each span's substring between
\* one opening and one closing marker, and nothing else.
C8_RenderRoundTrip ==
    \A r \in Rendered :
        ValidSpans(r.text, r.spans) =>
            LET t == r.tagged
                open == Lit(OpenMarker(r.fg, r.bg))
                close == Lit(CloseMarker(r.fg, r.bg))
            IN /\ TextOnly(t) = SliceT(r.text, 0, Len(r.text))
               /\ Chars(TextOnly(t)) = r.text
               /\ Len(MarkersOnly(t)) = Len(r.spans) * (Len(open) + Len(close))
               /\ \A n \in 1..Len(r.spans) :
                     LET first == PosOf(t, r.spans[n][1] + 1)
                         last == PosOf(t, r.spans[n][2])
                     IN /\ last - first = r.spans[n][2] - r.spans[n][1] - 1
                        /\ first > Len(open)
                        /\ SubSeq(t, first - Len(open), first - 1) = open
                        /\ last + Len(close) <= Len(t)
                        /\ SubSeq(t, last + 1, last + Len(close)) = close

C8_Witness ==
    /\ pc = "rendered"
    /\ Len(hist[1].spans) = 2
    /\ ValidSpans(hist[1].text, hist[1].spans)
    /\ hist[1].spans[1][2] < hist[1].spans[2][1]
    /\ Truthy(hist[1].bg)

\* the input with one backslash put before each markup character
RECURSIVE Backslashed(_, _)
Backslashed(text, n) ==
    IF n > Len(text) THEN <<>>
    ELSE (IF text[n] \in MarkupChars THEN <<"\\", text[n]>> ELSE <<text[n]>>)
         \o Backslashed(text, n + 1)

\* C9 as claimed: markdown_escape returns its input with a backslash before
\* each markup character, every character of the input kept.
C9_EscapeKeepsCharacters ==
    pc \in {"escape_done", "escaped"} => markd = Backslashed(all_text, 1)

\* C10: in main the miss-token set is empty, so the second pass is given no
\* token and highlights nothing.
C10_MissTokensEmpty ==
    /\ pc \in {"tokenized", "escaped", "pass1", "done"} =>
          (tokens_miss = {} /\ tokens_labels = tokens_answer)
    /\ pc = "done" =>
          /\ hist[2].tokens = <<>>
          /\ hist[2].spans = <<>>
          /\ \A n \in 1..Len(hist[2].calls) : hist[2].calls[n].tokens = <<>>
          /\ hist[2].output = hist[1].output

C10_Witness ==
    /\ pc = "done"
    /\ tokens_answer # <<>>
    /\ hist[1].spans # <<>>
    /\ Len(hist[2].calls) = 3

====
